---- MODULE Spec2Model ----
(***************************************************************************)
(* Cattle farm simulation (src/simulation): the tick orchestrator of       *)
(* model.py, the lifecycle handlers of handlers.py and the agent classes   *)
(* of cattle_agent.py, as a state machine.                                 *)
(*                                                                         *)
(* One tick of CattleFarmModel.step is the sequence of actions             *)
(*   HandleMatingSeasons ; HandleVaccination ; RandomInfectionCheck ;      *)
(*   StepFemale / StepMale (once per scheduled agent) ; EndTick.           *)
(*                                                                         *)
(* Positions are abstracted: pos records only whether the agent has a      *)
(* position (is in the ContinuousSpace) or pos is None; a neighbour query  *)
(* may return any subset of the agents that are in the space.              *)
(* Day counts (ages, gestation, disease duration, month length) are scaled *)
(* down; the scaled values are named below with their source values.       *)
(* A Python exception aborts the run: crashed becomes TRUE and nothing     *)
(* further happens.                                                        *)
(***************************************************************************)
EXTENDS Integers, FiniteSets, Sequences, TLC

\* ---------------------------------------------------------------- bounds
NumFemales == 2          \* init_cattle_count
NumMales == 1            \* round(init_cattle_count * males_per_female)
MaxNewborns == 1         \* births until cattle_id_sequence runs out of ids
MaxTicks == 6            \* ticks simulated
DaysPerMonth == 1        \* calendar scaled: every month has this many days
RandMax == 4             \* random() yields r / RandMax, r in 0..RandMax-1

\* scaled program constants (source value in the comment)
min_mating_age == 1          \* 1 * 356
max_mating_age == 8          \* 10 * 356
max_age == 9                 \* 11 * 356
start_age_min == 1           \* 356 * 1
start_age_max == 2           \* 356 * 9
gestation_length_days == 2   \* 285
disease_duration == 2        \* 356

MaxAgents == NumMales + NumFemales + MaxNewborns
Ids == 0 .. (MaxAgents - 1)
MaleIds == 0 .. (NumMales - 1)
InitFemaleIds == NumMales .. (NumMales + NumFemales - 1)
Draws == 0 .. (RandMax - 1)

VARIABLES
    agents,         \* id -> the agent object with that unique_id
    idseq,          \* CattleFarmModel.__cattle_id_sequence
    stats,          \* CattleFarmModel.statistics
    males_in_cage,  \* CattleFarmModel.males_in_cage
    tick,           \* days since the start date (current_date = Jan 1 + tick)
    pc,             \* position inside CattleFarmModel.step
    todo,           \* keys of schedule.agent_buffer not yet visited this tick
    cfg,            \* constructor arguments of CattleFarmModel, and the ticks to run
    crashed,        \* an exception has propagated out of the run
    last,           \* what the last action did (history, read by the properties)
    trial           \* inputs and result of one operation studied on its own
                    \* (SpecExposure, SpecMovement, SpecTwoRuns, SpecRemove,
                    \* SpecCalls, SpecMortality, SpecHeadings)

vars == <<agents, idseq, stats, males_in_cage, tick, pc, todo, cfg, crashed, last, trial>>

\* ------------------------------------------------------------ the calendar
YearLen == 12 * DaysPerMonth
\* current_date.month
Month(t) == ((t % YearLen) \div DaysPerMonth) + 1
\* current_date.timetuple().tm_yday
YDay(t) == (t % YearLen) + 1
mating_season_ThroughJune(t) == 4 <= Month(t) /\ Month(t) <= 6

\* CattleFarmModel.mating_season
mating_season(t) == 4 <= Month(t) /\ Month(t) <= 5

\* ------------------------------------------------------------ agents
NoAgent == [kind |-> "none", age_days |-> 0, pregnant_for_days |-> -1,
            infected_since_days |-> -1, is_going_to_die |-> FALSE,
            is_vaccinated |-> FALSE, pos |-> FALSE, sched |-> FALSE,
            fert_tick |-> -1, inf_tick |-> -1, vacc_tick |-> -1]

\* CattleBuilder.build
build(age, is_male) ==
    [NoAgent EXCEPT !.kind = IF is_male THEN "male" ELSE "female",
                    !.age_days = IF is_male THEN min_mating_age ELSE age]

\* Cattle.is_infected / MaleCattle.is_infected / InfectionHandler.is_infected
is_infected(ag) == ag.kind = "female" /\ ag.infected_since_days # -1

\* PregnancyHandler.is_pregnant
is_pregnant(ag) == ag.pregnant_for_days # -1

Statistics == [cattle_count |-> 0, infected_count |-> 0, vaccinated_count |-> 0,
               died_of_age |-> 0, died_of_disease |-> 0,
               removed_by_random_check |-> 0, virus_located |-> FALSE]

NoEvent == [op |-> "init", id |-> -1, removed |-> {}, reason |-> "NONE",
            preg_end |-> FALSE, preg_start |-> -1,
            inf_end |-> FALSE, inf_start |-> -1,
            was_infected |-> FALSE, new_inf |-> {}, born |-> {}, stale |-> FALSE]

NoTrial == [vaccinated |-> FALSE, chance |-> 0, r1 |-> 0, r2 |-> 0,
            draws |-> 0, infected |-> FALSE, done |-> FALSE]

\* The agents that are in the ContinuousSpace, and in the schedule
InSpace(ags) == {a \in Ids : ags[a].pos}
InSchedule(ags) == {a \in Ids : ags[a].sched}

\* ------------------------------------------------- CattleFarmModel (model.py)
step_order_CheckBeforeVaccination == <<"season", "check", "vacc", "activate">>

\* CattleFarmModel.step, lines 126-132: the phases of a tick in the order of
\* the calls (__handle_mating_seasons, __handle_vaccination,
\* __random_infection_check, schedule.step)
step_order == <<"season", "vacc", "check", "activate">>

\* the phase that follows a phase in the tick
After(phase) == step_order[(CHOOSE i \in 1 .. 3 : step_order[i] = phase) + 1]

\* A world w is what one step of the program reads and writes:
\* [ags, st, seq, crash, ev] = agents, statistics, id sequence, exception, event

\* CattleFarmModel.add_agent: place_agent, schedule.add, count unless told not to
add_agent(w, a, should_account_agent) ==
    [w EXCEPT !.ags[a].pos = TRUE,
              !.ags[a].sched = TRUE,
              !.st.cattle_count = IF should_account_agent THEN @ + 1 ELSE @]

\* CattleFarmModel.remove_agent: the counters first, then space.remove_agent
\* (raises when the agent has no position), then schedule.remove (raises when
\* the agent is not scheduled); ev.stale records a removal asked for an agent
\* that is not in the structure
remove_agent(w, a, reason) ==
    LET ag == w.ags[a]
        st1 == [w.st EXCEPT
                  !.infected_count = IF is_infected(ag) THEN @ - 1 ELSE @,
                  !.cattle_count = IF reason # "NONE" THEN @ - 1 ELSE @,
                  !.died_of_age = IF reason = "AGE" THEN @ + 1 ELSE @,
                  !.died_of_disease = IF reason = "DISEASE" THEN @ + 1 ELSE @,
                  !.removed_by_random_check =
                      IF reason = "RANDOM_CHECK" THEN @ + 1 ELSE @]
    IN  IF ~ag.pos
        THEN [w EXCEPT !.st = st1, !.crash = TRUE, !.ev.stale = TRUE]
        ELSE IF ~ag.sched
        THEN [w EXCEPT !.st = st1, !.ags[a].pos = FALSE, !.crash = TRUE,
                       !.ev.stale = TRUE]
        ELSE [w EXCEPT !.st = st1, !.ags[a].pos = FALSE, !.ags[a].sched = FALSE,
                       !.ev.removed = @ \cup {a}, !.ev.reason = reason]

\* a for-loop over the agents of ids (in list order) that stops at an exception
RECURSIVE ForEach(_, _, _, _)
ForEach(w, ids, Op(_, _), n) ==
    IF n >= MaxAgents \/ w.crash THEN w
    ELSE ForEach(IF n \in ids THEN Op(w, n) ELSE w, ids, Op, n + 1)

World(ev) == [ags |-> agents, st |-> stats, seq |-> idseq, crash |-> FALSE, ev |-> ev]

Commit(w) ==
    /\ agents' = w.ags
    /\ stats' = w.st
    /\ idseq' = w.seq
    /\ crashed' = w.crash
    /\ last' = w.ev

AddMale_ResetAge(w, m) ==
    add_agent([w EXCEPT !.ags[m].age_days = min_mating_age], m, FALSE)

\* CattleFarmModel.__handle_mating_seasons
AddMale(w, m) == add_agent(w, m, FALSE)
RemoveMale(w, m) == remove_agent(w, m, "NONE")

HandleMatingSeasons ==
    /\ pc = "season" /\ ~crashed
    /\ LET w0 == World([NoEvent EXCEPT !.op = "season"])
           w1 == IF mating_season(tick) /\ ~males_in_cage
                 THEN ForEach(w0, MaleIds, AddMale, 0) ELSE w0
           in1 == IF mating_season(tick) /\ ~males_in_cage THEN TRUE ELSE males_in_cage
           w2 == IF ~mating_season(tick) /\ in1
                 THEN ForEach(w1, MaleIds, RemoveMale, 0) ELSE w1
           in2 == IF ~mating_season(tick) /\ in1 THEN FALSE ELSE in1
       IN  /\ Commit(w2)
           /\ males_in_cage' = in2
    /\ pc' = After("season")
    /\ UNCHANGED <<tick, todo, cfg, trial>>

\* the subsets of S with exactly k elements (random.sample(S, k))
Sample(S, k) == {T \in SUBSET S : Cardinality(T) = k}

\* gets_vaccinated(radius, chance): the agent's infection handler is replaced by
\* InfectionHandler(agent, radius, chance, infected_since_days,
\* is_vaccination_handler=True), whose constructor sets is_going_to_die = False
gets_vaccinated(w, a) ==
    [w EXCEPT !.ags[a].is_vaccinated = TRUE,
              !.ags[a].is_going_to_die = FALSE,
              !.ags[a].vacc_tick = tick,
              !.st.vaccinated_count = @ + 1]

HandleVaccination_AnyFemale ==
    /\ pc = "vacc" /\ ~crashed
    /\ LET w0 == World([NoEvent EXCEPT !.op = "vacc"])
           non_vaccinated_cattle ==
               {a \in InSchedule(agents) : agents[a].kind = "female"}
       IN  IF ~stats.virus_located \/ cfg.vaccinations_per_day = 0
           THEN Commit(w0)
           ELSE \E selection \in
                    (IF Cardinality(non_vaccinated_cattle) <= cfg.vaccinations_per_day
                     THEN {non_vaccinated_cattle}
                     ELSE Sample(non_vaccinated_cattle, cfg.vaccinations_per_day)) :
                    Commit(ForEach(w0, selection, gets_vaccinated, 0))
    /\ pc' = After("vacc")
    /\ UNCHANGED <<males_in_cage, tick, todo, cfg, trial>>

\* CattleFarmModel.__handle_vaccination
HandleVaccination ==
    /\ pc = "vacc" /\ ~crashed
    /\ LET w0 == World([NoEvent EXCEPT !.op = "vacc"])
           non_vaccinated_cattle ==
               {a \in InSchedule(agents) :
                   agents[a].kind = "female" /\ ~agents[a].is_vaccinated}
       IN  IF ~stats.virus_located \/ cfg.vaccinations_per_day = 0
           THEN Commit(w0)
           ELSE \E selection \in
                    (IF Cardinality(non_vaccinated_cattle) <= cfg.vaccinations_per_day
                     THEN {non_vaccinated_cattle}
                     ELSE Sample(non_vaccinated_cattle, cfg.vaccinations_per_day)) :
                    Commit(ForEach(w0, selection, gets_vaccinated, 0))
    /\ pc' = After("vacc")
    /\ UNCHANGED <<males_in_cage, tick, todo, cfg, trial>>

\* agent.random.random() <= infection_check_accuracy, for a draw r / RandMax
Detected(r, accuracy) == r <= accuracy

RemoveByCheck(w, a) == remove_agent(w, a, "RANDOM_CHECK")

random_infection_check_NoFlag(w, selection, found) ==
    ForEach(w, found, RemoveByCheck, 0)

random_infection_check_Unsticky(w, selection, found) ==
    LET w1 == ForEach(w, found, RemoveByCheck, 0)
    IN  [w1 EXCEPT !.st.virus_located = found # {}]

\* CattleFarmModel.__random_infection_check: the agents it removes are found, of
\* the infected females of the selection, the ones whose draw detects them
random_infection_check(w, selection, found) ==
    LET w1 == ForEach(w, found, RemoveByCheck, 0)
    IN  [w1 EXCEPT !.st.virus_located = IF found # {} THEN TRUE ELSE @]

\* CattleFarmModel.step, lines 129-132: the surveillance on its days, then
\* schedule.step() takes the keys of the scheduled agents (agent_buffer);
\* tm_yday % 0 raises ZeroDivisionError
RandomInfectionCheck ==
    /\ pc = "check" /\ ~crashed
    /\ LET w0 == World([NoEvent EXCEPT !.op = "check"])
           scheduled == InSchedule(agents)
       IN  IF cfg.infection_check_interval = 0
           THEN /\ Commit([w0 EXCEPT !.crash = TRUE])
                /\ todo' = todo
           ELSE
           IF YDay(tick) % cfg.infection_check_interval = 0
              /\ cfg.infection_check_sample_size > 0
           THEN \E random_selection \in
                    (IF Cardinality(scheduled) <= cfg.infection_check_sample_size
                     THEN {scheduled}
                     ELSE Sample(scheduled, cfg.infection_check_sample_size)) :
                  LET infected_of_selection ==
                          {a \in random_selection : is_infected(agents[a])}
                  IN  \E found \in SUBSET infected_of_selection :
                        /\ \A a \in found :
                              \E r \in Draws : Detected(r, cfg.infection_check_accuracy)
                        /\ \A a \in infected_of_selection \ found :
                              \E r \in Draws : ~Detected(r, cfg.infection_check_accuracy)
                        /\ LET w1 == random_infection_check(
                                        [w0 EXCEPT !.ev.op = "sampled"],
                                        random_selection, found)
                           IN  /\ Commit(w1)
                               /\ todo' = InSchedule(w1.ags)
           ELSE /\ Commit(w0)
                /\ todo' = scheduled
    /\ pc' = After("check")
    /\ UNCHANGED <<males_in_cage, tick, cfg, trial>>

\* ------------------------------------------------------ handlers (handlers.py)
\* Handler.handle: the action runs only while the agent has a position
\* (an exception raised earlier in the activation has already ended it)
\* handle(w, a, done): done is what the handler's _action makes of w
handle(w, a, done) ==
    IF w.ags[a].pos /\ ~w.crash THEN done ELSE w

AgingHandler_action_OffByOne(w, a) ==
    LET w1 == [w EXCEPT !.ags[a].age_days = @ + 1]
    IN  IF w1.ags[a].age_days > max_age
        THEN remove_agent(w1, a, "AGE")
        ELSE w1

\* AgingHandler._action
AgingHandler_action(w, a) ==
    LET w1 == [w EXCEPT !.ags[a].age_days = @ + 1]
    IN  IF w1.ags[a].age_days >= max_age
        THEN remove_agent(w1, a, "AGE")
        ELSE w1

\* MovementHandler._action: the agent gets a new position inside the space
MovementHandler_action(w, a) == [w EXCEPT !.ags[a].pos = TRUE]

\* PregnancyHandler.__generate_baby: girl is the outcome of
\* random() < female_fetus_chance
generate_baby(w, a, girl) ==
    IF girl
    THEN LET n == w.seq
             w1 == [w EXCEPT !.seq = @ + 1, !.ags[n] = build(0, FALSE),
                             !.ev.born = @ \cup {n}]
         IN  add_agent(w1, n, TRUE)
    ELSE w

\* PregnancyHandler._action
PregnancyHandler_action(w, a, girl) ==
    IF ~is_pregnant(w.ags[a]) THEN w
    ELSE IF w.ags[a].pregnant_for_days >= gestation_length_days
    THEN [generate_baby(w, a, girl) EXCEPT
              !.ags[a].pregnant_for_days = -1,
              !.ags[a].fert_tick = -1,
              !.ev.preg_end = TRUE,
              !.ev.preg_start = w.ags[a].fert_tick]
    ELSE [w EXCEPT !.ags[a].pregnant_for_days = @ + 1]

gets_fertilized_Guarded(w, f) ==
    IF is_pregnant(w.ags[f]) THEN w
    ELSE [w EXCEPT !.ags[f].pregnant_for_days = 0, !.ags[f].fert_tick = tick]

\* PregnancyHandler.gets_fertilized
gets_fertilized(w, f) ==
    [w EXCEPT !.ags[f].pregnant_for_days = 0, !.ags[f].fert_tick = tick]

\* PregnancyHandler.is_fertile
is_fertile(ag) ==
    /\ max_mating_age >= ag.age_days
    /\ ag.age_days >= min_mating_age
    /\ ~is_pregnant(ag)

\* InfectionHandler.__infect_neighbors, for one healthy neighbour: the draws
\* r1, r2 are consumed in this order; chance is in units of 1 / RandMax
\*   if neighbor.is_vaccinated and random() <= chance * 0.75: infect
\*   elif random() <= chance: infect
Exposure(vaccinated, chance, r1, r2) ==
    IF vaccinated
    THEN IF 4 * r1 <= 3 * chance
         THEN [infected |-> TRUE, draws |-> 1]
         ELSE [infected |-> r2 <= chance, draws |-> 2]
    ELSE [infected |-> r1 <= chance, draws |-> 1]

\* InfectionHandler.__will_agent_die raises ZeroDivisionError for this agent:
\* age_in_years = ceil(age_days / 356) is 0
MortalityUndefined(ag) == ~ag.is_vaccinated /\ ag.age_days = 0

gets_infected_DrawsForVaccinated(ag, dies, t) ==
    [ag EXCEPT !.infected_since_days = 0,
               !.inf_tick = t,
               !.is_going_to_die = IF dies /\ ag.age_days # 0 THEN TRUE ELSE @]

gets_infected_Guarded(ag, dies, t) ==
    IF is_infected(ag) THEN ag
    ELSE [ag EXCEPT !.infected_since_days = 0,
                    !.inf_tick = t,
                    !.is_going_to_die = IF ag.is_vaccinated THEN FALSE
                                        ELSE IF dies /\ ag.age_days # 0 THEN TRUE
                                        ELSE @]

\* InfectionHandler.gets_infected with __will_agent_die: dies is the outcome of
\* random() <= base_mortality_rate / age_in_years
gets_infected(ag, dies, t) ==
    [ag EXCEPT !.infected_since_days = 0,
               !.inf_tick = t,
               !.is_going_to_die = IF ag.is_vaccinated THEN FALSE
                                   ELSE IF dies /\ ag.age_days # 0 THEN TRUE
                                   ELSE @]

\* InfectionHandler.__infect_neighbors: hit are the healthy neighbours whose
\* exposure infects them, doomed the ones of them whose mortality draw succeeds
infect_neighbors(w, a, hit, doomed) ==
    [w EXCEPT
       !.ags = [n \in Ids |->
                  IF n \in hit THEN gets_infected(w.ags[n], n \in doomed, tick)
                  ELSE w.ags[n]],
       !.ev.new_inf = hit,
       !.crash = \E n \in hit : MortalityUndefined(w.ags[n])]

\* InfectionHandler.__heal
heal(w, a) ==
    IF w.ags[a].infected_since_days >= disease_duration
    THEN [(IF w.ags[a].is_going_to_die
           THEN remove_agent(w, a, "DISEASE")
           ELSE [w EXCEPT !.st.infected_count = @ - 1])
          EXCEPT !.ags[a].infected_since_days = -1,
                 !.ags[a].inf_tick = -1,
                 !.ev.inf_end = TRUE,
                 !.ev.inf_start = w.ags[a].inf_tick]
    ELSE w

\* InfectionHandler._action
InfectionHandler_action(w, a, hit, doomed) ==
    IF ~is_infected(w.ags[a]) THEN w
    ELSE LET w1 == [w EXCEPT !.ags[a].infected_since_days = @ + 1]
             w2 == infect_neighbors(w1, a, hit, doomed)
         IN  IF w2.crash THEN w2 ELSE heal(w2, a)

\* The healthy agents a neighbour query of a can return and gets_infected()
\* changes (a male neighbour is exposed too, but has no infection state)
Exposed(w, a) ==
    {n \in InSpace(w.ags) \ {a} : w.ags[n].kind = "female" /\ ~is_infected(w.ags[n])}

\* The sets of neighbours one infection step of a can infect
Hits(w, a) ==
    {hit \in SUBSET Exposed(w, a) :
        /\ \A n \in hit : \E r1, r2 \in Draws :
              Exposure(w.ags[n].is_vaccinated,
                       cfg.chance_of_virus_transmission, r1, r2).infected
        /\ Cardinality({n \in hit : MortalityUndefined(w.ags[n])}) <= 1}

\* ------------------------------------------------------------ activation
\* The activation of a female: her handlers in their fixed order
FemaleHandlers(w, a, girl, hit, doomed) ==
    LET w1 == handle(w, a, AgingHandler_action(w, a))
        w2 == handle(w1, a, MovementHandler_action(w1, a))
        w3 == handle(w2, a, PregnancyHandler_action(w2, a, girl))
    IN  handle(w3, a, InfectionHandler_action(w3, a, hit, doomed))

StepFemale_KeepsTurn(a) ==
    /\ pc = "activate" /\ ~crashed
    /\ a \in todo
    /\ agents[a].kind = "female"
    /\ todo' = IF is_infected(agents[a]) THEN todo ELSE todo \ {a}
    /\ IF ~agents[a].sched
       THEN Commit(World([NoEvent EXCEPT !.op = "skip", !.id = a]))
       ELSE LET w0 == World([NoEvent EXCEPT !.op = "activate", !.id = a,
                                   !.was_infected = is_infected(agents[a])])
            IN  \E girl \in {g \in BOOLEAN : g => idseq < MaxAgents} :
                \E hit \in Hits(w0, a) :
                \E doomed \in SUBSET hit :
                    Commit(FemaleHandlers(w0, a, girl, hit, doomed))
    /\ UNCHANGED <<males_in_cage, tick, pc, cfg, trial>>

\* schedule.step(): the turn of a female of the round
StepFemale(a) ==
    /\ pc = "activate" /\ ~crashed
    /\ a \in todo
    /\ agents[a].kind = "female"
    /\ todo' = todo \ {a}
    /\ IF ~agents[a].sched
       THEN Commit(World([NoEvent EXCEPT !.op = "skip", !.id = a]))
       ELSE LET w0 == World([NoEvent EXCEPT !.op = "activate", !.id = a,
                                   !.was_infected = is_infected(agents[a])])
            IN  \E girl \in {g \in BOOLEAN : g => idseq < MaxAgents} :
                \E hit \in Hits(w0, a) :
                \E doomed \in SUBSET hit :
                    Commit(FemaleHandlers(w0, a, girl, hit, doomed))
    /\ UNCHANGED <<males_in_cage, tick, pc, cfg, trial>>

\* MaleCattle.look_for_mating: mate is the fertile female random.choice picks
\* among the neighbours (None when there is none around), success the outcome
\* of random() < mating_chance and random() < fertilization_chance;
\* get_neighbors raises when the male has no position
look_for_mating(w, a, mate, success) ==
    IF w.crash THEN w
    ELSE IF ~w.ags[a].pos THEN [w EXCEPT !.crash = TRUE]
    ELSE IF mate # -1 /\ success THEN gets_fertilized(w, mate)
    ELSE w

\* The females a male's neighbour query can find fertile
FemalesAround(w, a) ==
    {f \in InSpace(w.ags) \ {a} : w.ags[f].kind = "female" /\ is_fertile(w.ags[f])}

\* MaleCattle.step: the step of the base class, then look_for_mating
MaleStep(w, a, mate, success) ==
    LET w1 == handle(w, a, AgingHandler_action(w, a))
        w2 == handle(w1, a, MovementHandler_action(w1, a))
    IN  look_for_mating(w2, a, mate, success)

StepMale(a) ==
    /\ pc = "activate" /\ ~crashed
    /\ a \in todo
    /\ agents[a].kind = "male"
    /\ todo' = todo \ {a}
    /\ IF ~agents[a].sched
       THEN Commit(World([NoEvent EXCEPT !.op = "skip", !.id = a]))
       ELSE LET w0 == World([NoEvent EXCEPT !.op = "activate", !.id = a])
            IN  \E mate \in FemalesAround(w0, a) \cup {-1} :
                \E success \in BOOLEAN :
                    Commit(MaleStep(w0, a, mate, success))
    /\ UNCHANGED <<males_in_cage, tick, pc, cfg, trial>>

\* CattleFarmModel.step, lines 133-134: the clock advances, the metrics are
\* collected
EndTick ==
    /\ pc = "activate" /\ ~crashed
    /\ todo = {}
    /\ tick < cfg.ticks_to_run
    /\ tick' = tick + 1
    /\ pc' = "season"
    /\ last' = [NoEvent EXCEPT !.op = "endtick"]
    /\ UNCHANGED <<agents, idseq, stats, males_in_cage, todo, cfg, crashed, trial>>

\* ------------------------------------------------------------ construction
\* The constructor arguments the model is run with: a thorough surveillance
\* (the whole herd sampled, every infected female detected), the same without
\* a vaccination quota, and a weak surveillance
Configs ==
    {[init_infection_count |-> 1,
      infection_check_sample_size |-> MaxAgents,
      infection_check_accuracy |-> RandMax,
      infection_check_interval |-> 2,
      vaccinations_per_day |-> 1,
      chance_of_virus_transmission |-> RandMax \div 2,
      ticks_to_run |-> MaxTicks],
     [init_infection_count |-> 1,
      infection_check_sample_size |-> MaxAgents,
      infection_check_accuracy |-> RandMax,
      infection_check_interval |-> 2,
      vaccinations_per_day |-> 0,
      chance_of_virus_transmission |-> RandMax \div 2,
      ticks_to_run |-> MaxTicks],
     [init_infection_count |-> 1,
      infection_check_sample_size |-> 1,
      infection_check_accuracy |-> RandMax \div 2,
      infection_check_interval |-> 1,
      vaccinations_per_day |-> 1,
      chance_of_virus_transmission |-> RandMax \div 2,
      ticks_to_run |-> MaxTicks]}

\* CattleFarmModel.init_agents: the males are built first and kept aside, then
\* the females (the domain of age), each with a random age; the first
\* init_infection_count of them are infected before they are added
init_agents(c, age, doomed) ==
    [a \in Ids |->
        IF a \in MaleIds THEN build(start_age_min, TRUE)
        ELSE IF a \in DOMAIN age
        THEN LET ag == build(age[a], FALSE)
                 ag1 == IF a - NumMales < c.init_infection_count
                        THEN gets_infected(ag, a \in doomed, -1) ELSE ag
             IN  [ag1 EXCEPT !.pos = TRUE, !.sched = TRUE]
        ELSE NoAgent]

\* CattleFarmModel.__init__
Init ==
    /\ cfg \in Configs
    /\ \E age \in [InitFemaleIds -> start_age_min .. start_age_max] :
       \E doomed \in SUBSET {a \in InitFemaleIds : a - NumMales < cfg.init_infection_count} :
           agents = init_agents(cfg, age, doomed)
    /\ idseq = NumMales + NumFemales
    /\ stats = [Statistics EXCEPT !.cattle_count = NumFemales]
    /\ males_in_cage = FALSE
    /\ tick = 0
    /\ pc = "season"
    /\ todo = {}
    /\ crashed = FALSE
    /\ last = NoEvent
    /\ trial = NoTrial

Next ==
    \/ HandleMatingSeasons
    \/ HandleVaccination
    \/ RandomInfectionCheck
    \/ \E a \in Ids : StepFemale(a)
    \/ \E a \in Ids : StepMale(a)
    \/ EndTick

Spec == Init /\ [][Next]_vars

\* ------------------------------------------------------------ properties
\* The agents present in both the spatial index and the schedule
Live == InSpace(agents) \cap InSchedule(agents)

\* A tick has completed (or the model has just been constructed)
TickComplete == pc = "season" /\ ~crashed

\* C1: after every completed tick cattle_count equals the number of agents
\* that are in both the spatial index and the schedule, and is not negative.
C1_PopulationConservation ==
    TickComplete =>
        /\ stats.cattle_count = Cardinality(Live)
        /\ stats.cattle_count >= 0

\* C3: a pregnancy that ends in an activation (newborn spawned, or reset
\* without one) ends exactly gestation_length_days ticks after the tick in
\* which the female was fertilized.
C3_GestationExact ==
    (last.op = "activate" /\ last.preg_end) =>
        tick = last.preg_start + gestation_length_days

\* C4: an infection caught during a tick ends (removal with reason DISEASE, or
\* recovery) exactly disease_duration ticks after that tick, and only an agent
\* that is infected when it is activated infects a neighbour.
C4_DiseaseExact ==
    /\ (last.op = "activate" /\ last.inf_end /\ last.inf_start # -1) =>
           tick = last.inf_start + disease_duration
    /\ (last.op = "activate" /\ last.new_inf # {}) => last.was_infected

\* ------------------------------------------- one exposure (SpecExposure)
\* An infected agent processes one healthy neighbour: the inputs are the
\* neighbour's vaccination state, the infector's transmission chance and the
\* next two values of the random stream.
InitExposure ==
    /\ trial \in [vaccinated : BOOLEAN, chance : 0 .. RandMax, r1 : Draws, r2 : Draws,
                  draws : {0}, infected : {FALSE}, done : {FALSE}]
    /\ agents = [a \in Ids |-> NoAgent]
    /\ idseq = 0
    /\ stats = Statistics
    /\ males_in_cage = FALSE
    /\ tick = 0
    /\ pc = "exposure"
    /\ todo = {}
    /\ cfg = [chance_of_virus_transmission |-> 0]
    /\ crashed = FALSE
    /\ last = NoEvent

Expose ==
    /\ pc = "exposure"
    /\ ~trial.done
    /\ LET e == Exposure(trial.vaccinated, trial.chance, trial.r1, trial.r2)
       IN  trial' = [trial EXCEPT !.draws = e.draws, !.infected = e.infected,
                                  !.done = TRUE]
    /\ UNCHANGED <<agents, idseq, stats, males_in_cage, tick, pc, todo, cfg, crashed, last>>

SpecExposure == InitExposure /\ [][Expose]_vars

\* C5: exactly one draw decides the infection of a healthy neighbour: against
\* 0.75 x the transmission chance for a vaccinated neighbour, against the
\* transmission chance for an unvaccinated one.
C5_SingleDraw ==
    trial.done =>
        /\ trial.draws = 1
        /\ trial.infected =
              IF trial.vaccinated THEN 4 * trial.r1 <= 3 * trial.chance
              ELSE trial.r1 <= trial.chance

FullSampling ==
    /\ pc = "check" /\ ~crashed
    /\ YDay(tick) % cfg.infection_check_interval = 0
    /\ cfg.infection_check_sample_size >= Cardinality(InSchedule(agents))
    /\ cfg.infection_check_accuracy = RandMax

C7_FullSampling ==
    /\ [][(FullSampling /\ pc' = "activate") =>
            LET sick == {a \in InSchedule(agents) : is_infected(agents[a])}
            IN  /\ \A a \in sick :
                      ~agents'[a].sched /\ ~agents'[a].pos /\ a \notin todo'
                /\ \A a \in Ids \ sick : agents'[a] = agents[a]
                /\ last'.removed = sick
                /\ sick # {} => last'.reason = "RANDOM_CHECK"
                /\ stats'.removed_by_random_check =
                      stats.removed_by_random_check + Cardinality(sick)
                /\ stats'.cattle_count = stats.cattle_count - Cardinality(sick)
                /\ sick # {} => stats'.virus_located
         ]_vars
    /\ [](stats.removed_by_random_check > 0 => stats.virus_located)

C7_Witness ==
    /\ last.op = "sampled" /\ Cardinality(last.removed) = 2
    /\ cfg.infection_check_accuracy = RandMax
    /\ cfg.infection_check_sample_size >= Cardinality(InSchedule(agents)) + 2
    /\ stats.virus_located

\* C8: virus_located is false initially, becomes true only in a sampling that
\* removes an infected female, and never becomes false again.
C8_VirusLocatedSticky ==
    /\ ~stats.virus_located
    /\ [][/\ stats.virus_located => stats'.virus_located
          /\ (~stats.virus_located /\ stats'.virus_located) =>
                /\ last'.op = "sampled"
                /\ last'.removed # {}
                /\ last'.reason = "RANDOM_CHECK"
                /\ \A a \in last'.removed : is_infected(agents[a])
         ]_vars

C8_Witness ==
    /\ stats.virus_located
    /\ last.op = "sampled" /\ last.removed = {}
    /\ stats.vaccinated_count > 0
    /\ \E a \in Ids : agents[a].sched /\ is_infected(agents[a])

\* C9: after the season check of a tick the seasonal males are in the schedule
\* and the space exactly when the month is April or May, and the season check
\* changes no statistics counter.
C9_SeasonalMales ==
    /\ []((pc = "vacc" /\ ~crashed) =>
            \A m \in MaleIds :
                /\ agents[m].sched <=> Month(tick) \in {4, 5}
                /\ agents[m].pos <=> Month(tick) \in {4, 5})
    /\ [][pc = "season" => stats' = stats]_vars

C9_Witness ==
    /\ pc = "vacc" /\ ~crashed
    /\ Month(tick) = 6
    /\ last.op = "season" /\ last.removed = MaleIds
    /\ \A m \in MaleIds : ~agents[m].sched /\ ~agents[m].pos

SeasonTicks == 41

InitSeasons ==
    /\ cfg = [init_infection_count |-> 0,
              infection_check_sample_size |-> 1,
              infection_check_accuracy |-> RandMax,
              infection_check_interval |-> 2,
              vaccinations_per_day |-> 1,
              chance_of_virus_transmission |-> RandMax \div 2,
              ticks_to_run |-> SeasonTicks]
    /\ \E age \in [InitFemaleIds -> start_age_min .. start_age_max] :
           agents = init_agents(cfg, age, {})
    /\ idseq = NumMales + NumFemales
    /\ stats = [Statistics EXCEPT !.cattle_count = NumFemales]
    /\ males_in_cage = FALSE
    /\ tick = 0
    /\ pc = "season"
    /\ todo = {}
    /\ crashed = FALSE
    /\ last = NoEvent
    /\ trial = NoTrial

SpecSeasons == InitSeasons /\ [][Next]_vars

\* ------------------------------------ the agent classes of cattle_agent.py
\* (specification SpecCattle: the activation of an agent is the step method
\* of FemaleCattle / MaleCattle; pregnant_for_days is days_pregnant and
\* infected_since_days is infected_since_day)

\* ContinuousSpace.remove_agent, called by the agent itself: raises when the
\* agent is not in the space
space_remove_agent(w, a) ==
    IF ~w.ags[a].pos THEN [w EXCEPT !.crash = TRUE, !.ev.stale = TRUE]
    ELSE [w EXCEPT !.ags[a].pos = FALSE]

\* Cattle.step
Cattle_step(w, a) ==
    LET w1 == [w EXCEPT !.ags[a].age_days = @ + 1]
    IN  IF w1.ags[a].age_days >= max_age
        THEN space_remove_agent(w1, a)
        ELSE [w1 EXCEPT !.ags[a].infected_since_days =
                            IF is_infected(w1.ags[a]) THEN @ + 1 ELSE @,
                        !.ags[a].pos = TRUE]

\* FemaleCattle.handle_pregnancy: the newborn is constructed (taking an id) and
\* add_agent is called without a position, which raises
Cattle_handle_pregnancy(w, a, girl) ==
    IF w.crash \/ w.ags[a].pregnant_for_days = -1 THEN w
    ELSE IF w.ags[a].pregnant_for_days >= gestation_length_days
    THEN IF girl
         THEN [w EXCEPT !.seq = @ + 1, !.ags[w.seq] = build(0, FALSE),
                        !.ev.preg_end = TRUE,
                        !.ev.preg_start = w.ags[a].fert_tick,
                        !.crash = TRUE]
         ELSE [w EXCEPT !.ags[a].pregnant_for_days = -1,
                        !.ags[a].fert_tick = -1,
                        !.ev.preg_end = TRUE,
                        !.ev.preg_start = w.ags[a].fert_tick]
    ELSE [w EXCEPT !.ags[a].pregnant_for_days = @ + 1]

\* FemaleCattle.handle_infection: hit are the healthy female neighbours whose
\* draw random() <= chance_of_virus_transmission succeeds; get_neighbors
\* raises when the agent has no position
Cattle_handle_infection(w, a, hit) ==
    IF w.crash \/ ~is_infected(w.ags[a]) THEN w
    ELSE IF ~w.ags[a].pos THEN [w EXCEPT !.crash = TRUE]
    ELSE [w EXCEPT
            !.ags = [n \in Ids |->
                       IF n \in hit
                       THEN [w.ags[n] EXCEPT !.infected_since_days = 0, !.inf_tick = tick]
                       ELSE w.ags[n]],
            !.ev.new_inf = hit]

Cattle_Hits(w, a) ==
    {hit \in SUBSET Exposed(w, a) :
        hit # {} => \E r \in Draws : r <= cfg.chance_of_virus_transmission}

\* FemaleCattle.step
FemaleCattle_step(w, a, girl, hit) ==
    Cattle_handle_infection(Cattle_handle_pregnancy(Cattle_step(w, a), a, girl), a, hit)

\* FemaleCattle.is_fertile
Cattle_is_fertile(ag) ==
    /\ ag.pregnant_for_days = -1
    /\ min_mating_age < ag.age_days
    /\ ag.age_days < max_mating_age

Cattle_FemalesAround(w, a) ==
    {f \in InSpace(w.ags) \ {a} :
        w.ags[f].kind = "female" /\ Cattle_is_fertile(w.ags[f])}

\* MaleCattle.step
MaleCattle_step(w, a, mate, success) ==
    look_for_mating(Cattle_step(w, a), a, mate, success)

CattleStepFemale(a) ==
    /\ pc = "activate" /\ ~crashed
    /\ a \in todo
    /\ agents[a].kind = "female"
    /\ todo' = todo \ {a}
    /\ IF ~agents[a].sched
       THEN Commit(World([NoEvent EXCEPT !.op = "skip", !.id = a]))
       ELSE LET w0 == World([NoEvent EXCEPT !.op = "activate", !.id = a,
                                   !.was_infected = is_infected(agents[a])])
            IN  \E girl \in {g \in BOOLEAN : g => idseq < MaxAgents} :
                \E hit \in Cattle_Hits(w0, a) :
                    Commit(FemaleCattle_step(w0, a, girl, hit))
    /\ UNCHANGED <<males_in_cage, tick, pc, cfg, trial>>

CattleStepMale(a) ==
    /\ pc = "activate" /\ ~crashed
    /\ a \in todo
    /\ agents[a].kind = "male"
    /\ todo' = todo \ {a}
    /\ IF ~agents[a].sched
       THEN Commit(World([NoEvent EXCEPT !.op = "skip", !.id = a]))
       ELSE LET w0 == World([NoEvent EXCEPT !.op = "activate", !.id = a])
            IN  \E mate \in Cattle_FemalesAround(w0, a) \cup {-1} :
                \E success \in BOOLEAN :
                    Commit(MaleCattle_step(w0, a, mate, success))
    /\ UNCHANGED <<males_in_cage, tick, pc, cfg, trial>>

\* FemaleCattle has no gets_infected, is_vaccinated or gets_vaccinated: the herd
\* starts without infection and the vaccination quota is 0
InitCattle ==
    /\ cfg \in {[init_infection_count |-> 0,
                 infection_check_sample_size |-> MaxAgents,
                 infection_check_accuracy |-> RandMax,
                 infection_check_interval |-> k,
                 vaccinations_per_day |-> 0,
                 chance_of_virus_transmission |-> RandMax \div 2,
                 ticks_to_run |-> MaxTicks + 2] : k \in {1, 2}}
    /\ \E age \in [InitFemaleIds -> start_age_min .. start_age_max] :
           agents = init_agents(cfg, age, {})
    /\ idseq = NumMales + NumFemales
    /\ stats = [Statistics EXCEPT !.cattle_count = NumFemales]
    /\ males_in_cage = FALSE
    /\ tick = 0
    /\ pc = "season"
    /\ todo = {}
    /\ crashed = FALSE
    /\ last = NoEvent
    /\ trial = NoTrial

NextCattle ==
    \/ HandleMatingSeasons
    \/ HandleVaccination
    \/ RandomInfectionCheck
    \/ \E a \in Ids : CattleStepFemale(a)
    \/ \E a \in Ids : CattleStepMale(a)
    \/ EndTick

SpecCattle == InitCattle /\ [][NextCattle]_vars

\* C2: the spatial index and the schedule hold the same agents after every
\* add and every removal.
C2_SameMembership ==
    ~crashed => \A a \in Ids : agents[a].pos = agents[a].sched

\* ------------------------------------------- one movement step (SpecMovement)
\* MovementHandler._action on one agent. Coordinates are integers; a heading
\* is kept as heading * movement_speed, so that after the normalisation of
\* line 128 (heading /= norm(heading), the same array as agent.heading) it is
\* an integer vector of length move_speed.
move_speed == 5              \* 50
SmallSize == 8               \* a space narrower than 2 * move_speed
LargeSize == 12              \* a space wider than 2 * move_speed

\* the headings line 128 can leave: the vectors of length 1
UnitHeadings ==
    {h \in (-move_speed .. move_speed) \X (-move_speed .. move_speed) :
        h[1] * h[1] + h[2] * h[2] = move_speed * move_speed}

\* MovementHandler.__assure_boid_stays_in_space (x_min = y_min = 0,
\* x_max = y_max = size)
assure_boid_stays_in_space(pos, heading, size) ==
    [i \in {1, 2} |->
        IF pos[i] + heading[i] <= 0 \/ pos[i] + heading[i] >= size
        THEN -heading[i] ELSE heading[i]]

\* MovementHandler._action, lines 129-131: the new heading and new_pos
new_pos(pos, heading) == [i \in {1, 2} |-> pos[i] + heading[i]]

InitMovement ==
    /\ \E size \in {SmallSize, LargeSize} :
          trial \in [size : {size}, pos : (0 .. size) \X (0 .. size),
                     heading : UnitHeadings, new_heading : {<<0, 0>>},
                     new_pos : {<<0, 0>>}, done : {FALSE}]
    /\ agents = [a \in Ids |-> NoAgent]
    /\ idseq = 0
    /\ stats = Statistics
    /\ males_in_cage = FALSE
    /\ tick = 0
    /\ pc = "movement"
    /\ todo = {}
    /\ cfg = [size |-> trial.size]
    /\ crashed = FALSE
    /\ last = NoEvent

MovementStep ==
    /\ pc = "movement"
    /\ ~trial.done
    /\ LET h == assure_boid_stays_in_space(trial.pos, trial.heading, trial.size)
       IN  trial' = [trial EXCEPT !.new_heading = h,
                                  !.new_pos = new_pos(trial.pos, h),
                                  !.done = TRUE]
    /\ UNCHANGED <<agents, idseq, stats, males_in_cage, tick, pc, todo, cfg, crashed, last>>

SpecMovement == InitMovement /\ [][MovementStep]_vars

\* C11: from a position inside [0, size] on both axes and any heading the
\* movement rule produces, the position handed to move_agent is inside
\* [0, size] on both axes, and a heading component is inverted exactly when
\* the prospective coordinate is at or beyond a boundary.
C11_Containment ==
    trial.done =>
        \A i \in {1, 2} :
            /\ 0 <= trial.new_pos[i] /\ trial.new_pos[i] <= trial.size
            /\ trial.new_heading[i] =
                  IF trial.pos[i] + trial.heading[i] <= 0
                     \/ trial.pos[i] + trial.heading[i] >= trial.size
                  THEN -trial.heading[i] ELSE trial.heading[i]

\* ------------------------------------- two runs of one seed (SpecTwoRuns)
\* Two runs with the same configuration and the same seed of self.random.
\* The seed fixes every draw of self.random: the ages and the mortality draw
\* of init_agents, so both runs are constructed in the same state. The
\* headings come from np.random.random (model.py:88, 98), numpy's global
\* generator, which the seed does not reach; positions are moved along the
\* headings, so the neighbour sets of a run are not fixed by the seed.
\* The first run is the run of the variables, with neighbour sets of any
\* kind. The second run is one whose headings keep every agent outside the
\* infection radius of every other; until the first mating season it consumes
\* no draw, and trial holds the state it was constructed in.

\* the first tick of April: until then there is no male in the cage
FirstSeasonTick == 3 * DaysPerMonth

\* the series the DataCollector records (model.py:72-79)
Metrics(st) ==
    <<st.cattle_count, st.infected_count, st.vaccinated_count, st.virus_located>>

\* the activation of an agent that has no neighbour and is not pregnant
Alone(w, a) ==
    IF w.ags[a].sched THEN FemaleHandlers(w, a, FALSE, {}, {}) ELSE w

\* the state of the second run after t ticks without season change,
\* vaccination or surveillance: t rounds of schedule.step()
RECURSIVE RunAlone(_, _)
RunAlone(w, t) ==
    IF t = 0 THEN w
    ELSE LET w1 == RunAlone(w, t - 1)
         IN  ForEach(w1, InSchedule(w1.ags), Alone, 0)

InitTwoRuns ==
    /\ cfg = [init_infection_count |-> 1,
              infection_check_sample_size |-> 0,
              infection_check_accuracy |-> RandMax,
              infection_check_interval |-> 1,
              vaccinations_per_day |-> 1,
              chance_of_virus_transmission |-> RandMax \div 2,
              ticks_to_run |-> FirstSeasonTick]
    /\ \E age \in [InitFemaleIds -> start_age_min .. start_age_max] :
       \E doomed \in SUBSET {a \in InitFemaleIds : a - NumMales < cfg.init_infection_count} :
           agents = init_agents(cfg, age, doomed)
    /\ idseq = NumMales + NumFemales
    /\ stats = [Statistics EXCEPT !.cattle_count = NumFemales]
    /\ males_in_cage = FALSE
    /\ tick = 0
    /\ pc = "season"
    /\ todo = {}
    /\ crashed = FALSE
    /\ last = NoEvent
    /\ trial = [ags |-> agents, st |-> stats, seq |-> idseq, crash |-> FALSE,
                ev |-> NoEvent]

SpecTwoRuns == InitTwoRuns /\ [][Next]_vars

\* C12: two runs of the same seed and configuration have committed the same
\* metrics (alive, infected, vaccinated, virus_located) after every tick.
C12_SameSeedSameMetrics ==
    (TickComplete /\ tick <= FirstSeasonTick) =>
        Metrics(stats) = Metrics(RunAlone(trial, tick).st)

\* ------------------------------------------------------------ activation round
\* C13: the activation round of a tick starts from the agents scheduled at
\* that moment; every step of the round takes one agent out of the round and
\* activates it if it is still scheduled; nothing is activated outside the
\* round or put back into it, and the tick ends only when the round is empty:
\* each agent live at the start and at its turn is activated exactly once.
C13_ActivatedOnce ==
    [][/\ (pc = "check" /\ pc' = "activate") => todo' = InSchedule(agents')
       /\ (pc = "activate" /\ pc' = "activate" /\ vars' # vars) =>
             \E a \in todo :
                /\ todo' = todo \ {a}
                /\ last'.id = a
                /\ last'.op = IF agents[a].sched THEN "activate" ELSE "skip"
       /\ last'.op = "activate" /\ last' # last =>
             pc = "activate" /\ last'.id \in todo /\ agents[last'.id].sched
       /\ (pc = "activate" /\ pc' = "season") => todo = {}
      ]_vars

C13_Witness ==
    /\ pc = "activate" /\ todo # {}
    /\ last.op = "activate" /\ last.born # {}
    /\ stats.died_of_age + stats.died_of_disease > 0
    /\ \E a \in todo : agents[a].sched

\* ------------------------------------------------- removal in an activation
\* the fields of an agent that the aging step itself writes
AfterAging(ag) == [ag EXCEPT !.age_days = @ + 1, !.pos = FALSE, !.sched = FALSE]

\* C14: when the aging step of an agent's activation removes it (its age
\* reaches max_age), the rest of that activation does nothing: its pregnancy
\* and infection state stay as they were, no newborn is spawned, no neighbour
\* is infected or fertilized, no exception ends the round, and it is not moved
\* back into the space; an activation that ends in a removal by disease raises
\* no exception either.
C14_NothingAfterRemoval ==
    [][\A a \in Ids :
         /\ (/\ pc = "activate" /\ ~crashed
             /\ a \in todo /\ a \notin todo'
             /\ agents[a].sched /\ agents[a].pos
             /\ agents[a].age_days = max_age - 1)
            =>
            /\ ~crashed'
            /\ [agents'[a] EXCEPT !.sched = FALSE] = AfterAging(agents[a])
            /\ \A n \in Ids \ {a} : agents'[n] = agents[n]
            /\ idseq' = idseq
            /\ last'.born = {} /\ last'.new_inf = {}
         /\ (/\ pc = "activate" /\ ~crashed
             /\ last'.op = "activate" /\ last'.id = a
             /\ last'.reason = "DISEASE" /\ a \in last'.removed)
            =>
            ~crashed' /\ ~agents'[a].pos
      ]_vars

\* ------------------------------------------------------ vaccination campaign
\* the unvaccinated scheduled females, the agents the campaign may select
Unvaccinated == {a \in InSchedule(agents) :
                    agents[a].kind = "female" /\ ~agents[a].is_vaccinated}

Min(x, y) == IF x <= y THEN x ELSE y

\* C15: the campaign of a tick vaccinates exactly min(quota, number of
\* unvaccinated scheduled females) agents when virus_located is true and the
\* quota is positive, and nobody otherwise; every agent it vaccinates is an
\* unvaccinated scheduled female, and no other step vaccinates anybody.
C15_CampaignQuota ==
    [][LET newly == {a \in Ids : ~agents[a].is_vaccinated /\ agents'[a].is_vaccinated}
       IN  /\ newly \subseteq Unvaccinated
           /\ pc # "vacc" => newly = {}
           /\ (pc = "vacc" /\ pc' = "check") =>
                 Cardinality(newly) =
                    IF stats.virus_located /\ cfg.vaccinations_per_day > 0
                    THEN Min(cfg.vaccinations_per_day, Cardinality(Unvaccinated))
                    ELSE 0
           /\ \A a \in Ids : agents[a].is_vaccinated => agents'[a].is_vaccinated
      ]_vars

C15_Witness ==
    /\ pc = "check" /\ last.op = "vacc"
    /\ stats.vaccinated_count = 1
    /\ Cardinality(Unvaccinated) >= 1
    /\ \E a \in InSchedule(agents) : agents[a].is_vaccinated

\* ------------------------------------------------------ one removal per stay
\* the reason counters of the statistics, summed
ReasonCounters(st) == st.died_of_age + st.died_of_disease + st.removed_by_random_check

\* C16: an agent leaves the live set only through a removal of the registry,
\* no removal is ever asked for an agent that is not in the space and the
\* schedule, and a step that removes k agents raises the reason counters by
\* at most k in total (one counter per removal).
C16_OneRemovalPerStay ==
    /\ [](~last.stale)
    /\ [][/\ \A a \in Ids :
                (agents[a].pos /\ agents[a].sched /\ ~(agents'[a].pos /\ agents'[a].sched))
                    => a \in last'.removed
          /\ last' # last =>
                /\ ReasonCounters(stats') - ReasonCounters(stats)
                      = IF last'.reason = "NONE" THEN 0 ELSE Cardinality(last'.removed)
                /\ stats'.died_of_age >= stats.died_of_age
                /\ stats'.died_of_disease >= stats.died_of_disease
                /\ stats'.removed_by_random_check >= stats.removed_by_random_check
         ]_vars

\* --------------------------------------------- construction (SpecConstruct)
\* The constructor is called with arguments of any kind, among them a
\* surveillance interval of 0, an accuracy above 1.0 and a negative number of
\* initial infections; the run that follows is the first two ticks (January
\* and February: no male is scheduled).
ConstructorArguments ==
    [init_infection_count : {-1, 1},
     infection_check_sample_size : {MaxAgents},
     infection_check_accuracy : {RandMax, RandMax + 1},
     infection_check_interval : {0, 1},
     vaccinations_per_day : {1},
     chance_of_virus_transmission : {RandMax \div 2},
     ticks_to_run : {2 * DaysPerMonth}]

InitConstruct ==
    /\ cfg \in ConstructorArguments
    /\ agents = [a \in Ids |-> NoAgent]
    /\ idseq = 0
    /\ stats = Statistics
    /\ males_in_cage = FALSE
    /\ tick = 0
    /\ pc = "construct"
    /\ todo = {}
    /\ crashed = FALSE
    /\ last = NoEvent
    /\ trial = NoTrial

\* CattleFarmModel.__init__: the arguments are stored as they are, the herd is
\* built, the metrics are collected; nothing is validated
Construct ==
    /\ pc = "construct"
    /\ \E age \in [InitFemaleIds -> start_age_min .. start_age_max] :
       \E doomed \in SUBSET {a \in InitFemaleIds : a - NumMales < cfg.init_infection_count} :
           agents' = init_agents(cfg, age, doomed)
    /\ idseq' = NumMales + NumFemales
    /\ stats' = [Statistics EXCEPT !.cattle_count = NumFemales]
    /\ pc' = "season"
    /\ last' = [NoEvent EXCEPT !.op = "construct"]
    /\ UNCHANGED <<males_in_cage, tick, todo, cfg, crashed, trial>>

NextConstruct ==
    \/ Construct
    \/ HandleMatingSeasons
    \/ HandleVaccination
    \/ RandomInfectionCheck
    \/ \E a \in Ids : StepFemale(a)
    \/ EndTick

SpecConstruct == InitConstruct /\ [][NextConstruct]_vars

\* C17: a model exists only for a valid configuration (counts not negative,
\* probabilities within [0, 1], surveillance interval not 0): an invalid one
\* is refused by the constructor, and none fails in a later tick.
C17_InvalidConfigRejected ==
    pc # "construct" =>
        /\ cfg.init_infection_count >= 0
        /\ cfg.infection_check_sample_size >= 0
        /\ cfg.vaccinations_per_day >= 0
        /\ 0 <= cfg.infection_check_accuracy /\ cfg.infection_check_accuracy <= RandMax
        /\ 0 <= cfg.chance_of_virus_transmission /\ cfg.chance_of_virus_transmission <= RandMax
        /\ cfg.infection_check_interval # 0

\* ----------------------------------------- one call of remove_agent (SpecRemove)
\* remove_agent(agent, reason) is called once, for an agent that is or is not
\* in the space and the schedule, infected or not, with statistics that count
\* the agent if it is live. trial holds the arguments and the statistics
\* before the call.
Subject == NumMales

InitRemove ==
    /\ \E in_space, scheduled, infected \in BOOLEAN :
       \E count \in 0 .. NumFemales, sick \in 0 .. NumFemales :
          /\ (in_space /\ scheduled) => count >= 1
          /\ (in_space /\ scheduled /\ infected) => sick >= 1
          /\ sick <= count
          /\ agents = [a \in Ids |->
                         IF a = Subject
                         THEN [build(start_age_min, FALSE) EXCEPT
                                  !.pos = in_space, !.sched = scheduled,
                                  !.infected_since_days = IF infected THEN 0 ELSE -1]
                         ELSE NoAgent]
          /\ stats = [Statistics EXCEPT !.cattle_count = count, !.infected_count = sick]
    /\ trial \in [reason : {"NONE", "AGE", "DISEASE", "RANDOM_CHECK"},
                  before : {stats}, done : {FALSE}]
    /\ idseq = NumMales + NumFemales
    /\ males_in_cage = FALSE
    /\ tick = 0
    /\ pc = "remove"
    /\ todo = {}
    /\ cfg = [ticks_to_run |-> 0]
    /\ crashed = FALSE
    /\ last = NoEvent

CallRemove ==
    /\ pc = "remove"
    /\ ~trial.done
    /\ Commit(remove_agent(World([NoEvent EXCEPT !.op = "remove", !.id = Subject]),
                           Subject, trial.reason))
    /\ trial' = [trial EXCEPT !.done = TRUE]
    /\ UNCHANGED <<males_in_cage, tick, pc, todo, cfg>>

SpecRemove == InitRemove /\ [][CallRemove]_vars

\* C18: a removal asked for an agent that is not in the live set raises an
\* error and leaves every counter of the statistics as it was, and no call
\* drives a counter below zero.
C18_StatisticsNotCorrupted ==
    trial.done =>
        /\ ~(agents[Subject].pos /\ agents[Subject].sched) /\ last.removed = {}
              => (crashed /\ stats = trial.before)
        /\ stats.cattle_count >= 0
        /\ stats.infected_count >= 0
        /\ stats.died_of_age >= 0
        /\ stats.died_of_disease >= 0
        /\ stats.removed_by_random_check >= 0

\* ------------------------------------------------------------ order of a tick
\* C19: the phases of a tick follow each other in the order season check,
\* vaccination campaign, surveillance, activation round, clock advance with
\* the metrics commit; the clock advances by one only after a finished round
\* and the commit changes neither herd nor statistics, so the committed
\* metrics hold every birth and removal of the tick; an agent is vaccinated
\* only in the campaign phase and only if virus_located was true when the
\* previous tick ended (the season check before it does not change the flag).
C19_PhaseOrder ==
    [][/\ pc' # pc =>
             <<pc, pc'>> \in {<<"construct", "season">>, <<"season", "vacc">>,
                              <<"vacc", "check">>, <<"check", "activate">>,
                              <<"activate", "season">>}
       /\ (tick' # tick \/ (pc = "activate" /\ pc' = "season")) =>
             /\ pc = "activate" /\ pc' = "season"
             /\ tick' = tick + 1
             /\ todo = {}
             /\ stats' = stats /\ agents' = agents
       /\ pc = "season" => stats'.virus_located = stats.virus_located
       /\ (\E a \in Ids : ~agents[a].is_vaccinated /\ agents'[a].is_vaccinated) =>
             pc = "vacc" /\ stats.virus_located
       /\ stats'.virus_located # stats.virus_located => pc = "check"
      ]_vars

C19_Witness ==
    /\ pc = "season" /\ last.op = "endtick" /\ tick >= 2
    /\ stats.vaccinated_count >= 1
    /\ stats.removed_by_random_check >= 1
    /\ stats.cattle_count > NumFemales - stats.removed_by_random_check
                            - stats.died_of_disease - stats.died_of_age

\* ------------------------------------------------------------ infected counter
\* C20: after every tick infected_count is the number of live agents that are
\* infected, and it is not negative.
C20_InfectedCount ==
    (TickComplete /\ tick >= 1) =>
        /\ stats.infected_count = Cardinality({a \in Live : is_infected(agents[a])})
        /\ stats.infected_count >= 0

\* ------------------------------------- one call on one agent (SpecCalls)
\* A method of a female's handlers is called once from outside her own
\* activation: gets_fertilized() by a male, gets_infected() by an infected
\* neighbour or by init_agents. The female is in any state an agent of a run
\* can be in between two activations; trial.before holds her state before
\* the call.
CallSubjects ==
    {ag \in [kind : {"female"}, age_days : 0 .. max_age - 1,
             pregnant_for_days : -1 .. gestation_length_days,
             infected_since_days : -1 .. disease_duration - 1,
             is_going_to_die : BOOLEAN, is_vaccinated : BOOLEAN,
             pos : {TRUE}, sched : {TRUE}, fert_tick : {-1}, inf_tick : {-1},
             vacc_tick : {-1}] :
        /\ is_pregnant(ag) => ag.age_days >= min_mating_age
        /\ ag.is_going_to_die => (is_infected(ag) /\ ~ag.is_vaccinated)
        /\ (is_infected(ag) /\ ~ag.is_vaccinated) => ag.age_days >= 1}

InitCalls ==
    /\ \E ag \in CallSubjects :
          /\ agents = [a \in Ids |-> IF a = Subject THEN ag ELSE NoAgent]
          /\ trial = [op |-> "none", before |-> ag, dies |-> FALSE, done |-> FALSE]
    /\ idseq = NumMales + NumFemales
    /\ stats = [Statistics EXCEPT !.cattle_count = 1]
    /\ males_in_cage = FALSE
    /\ tick = 0
    /\ pc = "call"
    /\ todo = {}
    /\ cfg = [ticks_to_run |-> 0]
    /\ crashed = FALSE
    /\ last = NoEvent

\* chosen_mate.gets_fertilized() (cattle_agent.py:149)
CallGetsFertilized ==
    /\ pc = "call" /\ ~trial.done
    /\ Commit(gets_fertilized(World([NoEvent EXCEPT !.op = "fertilize", !.id = Subject]),
                              Subject))
    /\ trial' = [trial EXCEPT !.op = "fertilize", !.done = TRUE]
    /\ UNCHANGED <<males_in_cage, tick, pc, todo, cfg>>

\* neighbor.gets_infected() (handlers.py:276, 278), agent.gets_infected()
\* (model.py:101)
CallGetsInfected ==
    /\ pc = "call" /\ ~trial.done
    /\ \E dies \in BOOLEAN :
          /\ agents' = [agents EXCEPT ![Subject] = gets_infected(@, dies, tick)]
          /\ trial' = [trial EXCEPT !.op = "infect", !.dies = dies, !.done = TRUE]
    /\ crashed' = MortalityUndefined(agents[Subject])
    /\ last' = [NoEvent EXCEPT !.op = "infect", !.id = Subject]
    /\ UNCHANGED <<idseq, stats, males_in_cage, tick, pc, todo, cfg>>

NextCalls ==
    \/ CallGetsFertilized
    \/ CallGetsInfected

SpecCalls == InitCalls /\ [][NextCalls]_vars

\* C21 as stated: gets_fertilized() starts a pregnancy (counter 0) on a female
\* that is not pregnant, and called on a pregnant female it leaves her
\* gestation counter as it was.
C21_FertilizedOnlyIfNotPregnant ==
    (trial.done /\ trial.op = "fertilize") =>
        agents[Subject].pregnant_for_days =
            IF is_pregnant(trial.before) THEN trial.before.pregnant_for_days ELSE 0

\* C21 as amended: gets_fertilized() sets the gestation counter to 0 whatever
\* the pregnancy state of the female was, and changes nothing else of her.
C21_FertilizedAlways ==
    (trial.done /\ trial.op = "fertilize") =>
        /\ agents[Subject].pregnant_for_days = 0
        /\ [agents[Subject] EXCEPT !.fert_tick = -1]
              = [trial.before EXCEPT !.pregnant_for_days = 0]
        /\ stats = [Statistics EXCEPT !.cattle_count = 1]
        /\ ~crashed

C21_Witness ==
    /\ trial.done /\ trial.op = "fertilize"
    /\ trial.before.pregnant_for_days = gestation_length_days
    /\ agents[Subject].pregnant_for_days = 0

\* C22 as stated: gets_infected() on an agent that is already infected changes
\* neither its days-infected counter nor its will_die outcome; on a healthy
\* agent it sets the counter to 0.
C22_InfectedNoOp ==
    (trial.done /\ trial.op = "infect" /\ ~crashed) =>
        IF is_infected(trial.before)
        THEN /\ agents[Subject].infected_since_days = trial.before.infected_since_days
             /\ agents[Subject].is_going_to_die = trial.before.is_going_to_die
        ELSE agents[Subject].infected_since_days = 0

\* C22 as amended: gets_infected() sets the days-infected counter to 0 whether
\* or not the agent was infected, and draws the outcome again: will_die is
\* false for a vaccinated agent, and for an unvaccinated one it becomes true
\* when the draw succeeds and keeps its value when it fails.
C22_InfectedAlwaysResets ==
    (trial.done /\ trial.op = "infect" /\ ~crashed) =>
        /\ agents[Subject].infected_since_days = 0
        /\ agents[Subject].is_going_to_die =
              IF trial.before.is_vaccinated THEN FALSE
              ELSE (trial.before.is_going_to_die \/ trial.dies)
        /\ [agents[Subject] EXCEPT !.inf_tick = -1]
              = [trial.before EXCEPT !.infected_since_days = 0,
                                     !.is_going_to_die = agents[Subject].is_going_to_die]

C22_Witness ==
    /\ trial.done /\ trial.op = "infect" /\ ~crashed
    /\ trial.before.infected_since_days = disease_duration - 1
    /\ ~trial.before.is_going_to_die /\ trial.dies
    /\ agents[Subject].infected_since_days = 0
    /\ agents[Subject].is_going_to_die

\* ----------------------------------- the mortality draw (SpecMortality)
\* InfectionHandler.__will_agent_die for an unvaccinated agent, with ages in
\* days as the program counts them (not scaled). A probability is a pair
\* <<numerator, denominator>>.
MaxAgeDays == 740            \* the ages drawn: 1 .. MaxAgeDays
days_per_year == 356         \* the divisor of handlers.py:284

\* infection_constants['base_mortality_rate'] = 0.6
base_mortality_rate == <<6, 10>>

\* math.ceil(self.agent.age_days / 356)
age_in_years(age_days) == (age_days + days_per_year - 1) \div days_per_year

\* base_mortality_rate / age_in_years
chance_of_mortality(age_days) ==
    <<base_mortality_rate[1], base_mortality_rate[2] * age_in_years(age_days)>>

\* self.agent.random.random() <= chance_of_mortality, for a draw r / RandMax
will_agent_die(age_days, r) ==
    r * chance_of_mortality(age_days)[2] <= chance_of_mortality(age_days)[1] * RandMax

InitMortality ==
    /\ trial \in [age_days : 1 .. MaxAgeDays, r : Draws, chance : {<<0, 1>>},
                  dies : {FALSE}, done : {FALSE}]
    /\ agents = [a \in Ids |-> NoAgent]
    /\ idseq = 0
    /\ stats = Statistics
    /\ males_in_cage = FALSE
    /\ tick = 0
    /\ pc = "mortality"
    /\ todo = {}
    /\ cfg = [ticks_to_run |-> 0]
    /\ crashed = FALSE
    /\ last = NoEvent

DrawMortality ==
    /\ pc = "mortality"
    /\ ~trial.done
    /\ trial' = [trial EXCEPT !.chance = chance_of_mortality(trial.age_days),
                              !.dies = will_agent_die(trial.age_days, trial.r),
                              !.done = TRUE]
    /\ UNCHANGED <<agents, idseq, stats, males_in_cage, tick, pc, todo, cfg, crashed, last>>

SpecMortality == InitMortality /\ [][DrawMortality]_vars

\* C23: for an unvaccinated agent infected at age a >= 1 the mortality chance
\* of the will_die draw is base_mortality_rate / ceil(a / 365): the full base
\* rate for 1 <= a <= 365, half of it for 366 <= a <= 730.
C23_MortalityChance ==
    trial.done =>
        trial.chance[1] * base_mortality_rate[2] * ((trial.age_days + 364) \div 365)
            = base_mortality_rate[1] * trial.chance[2]

\* --------------------------------------- an outbreak in a herd (SpecOutbreak)
\* A herd of NumFemales + 1 females of the youngest starting age, two of them
\* infected at the start, under a daily surveillance that samples one agent
\* and a vaccination quota of one: an infected female is found while another
\* one goes on spreading the disease among vaccinated agents.
OutbreakTicks == 3           \* ticks simulated (January to April)

OutbreakFemaleIds == NumMales .. (NumMales + NumFemales)

InitOutbreak ==
    /\ cfg = [init_infection_count |-> 2,
              infection_check_sample_size |-> 1,
              infection_check_accuracy |-> RandMax,
              infection_check_interval |-> 1,
              vaccinations_per_day |-> 1,
              chance_of_virus_transmission |-> RandMax \div 2,
              ticks_to_run |-> OutbreakTicks]
    /\ \E age \in [OutbreakFemaleIds -> {start_age_min}] :
       \E doomed \in SUBSET {a \in OutbreakFemaleIds : a - NumMales < cfg.init_infection_count} :
           agents = init_agents(cfg, age, doomed)
    /\ idseq = NumMales + Cardinality(OutbreakFemaleIds)
    /\ stats = [Statistics EXCEPT !.cattle_count = Cardinality(OutbreakFemaleIds)]
    /\ males_in_cage = FALSE
    /\ tick = 0
    /\ pc = "season"
    /\ todo = {}
    /\ crashed = FALSE
    /\ last = NoEvent
    /\ trial = NoTrial

SpecOutbreak == InitOutbreak /\ [][Next]_vars

C26_MaleAgeResetAtEntry ==
    [][(pc = "season" /\ ~crashed /\ mating_season(tick) /\ ~males_in_cage) =>
          \A m \in MaleIds :
              /\ agents'[m].pos /\ agents'[m].sched
              /\ agents'[m].age_days = min_mating_age
      ]_vars

\* ------------------------------------------- heading arrays (SpecHeadings)
\* A heading is a numpy array, an object that the agent's attribute heading
\* refers to: trial.heap maps an array to its value and trial.heading maps an
\* agent to its array (0: the agent does not exist yet). The value of an array
\* is vec / norm(over), both vectors of integers; a heading that was never
\* normalised has over = <<1, 0>>. The neighbours and the position are not
\* modelled here: the steering of a step (the weighted boid vectors / 2) is
\* any vector of Steerings, a component is reflected or not, and the new
\* position is any position.
HeadingAgents == {"mother", "newborn"}
\* the arrays that exist: the one init_agents made for the mother's heading
Arrays == {1}
Positions == {0, 1}
Raw == <<1, 0>>

\* the headings init_agents draws (np.random.random(2) * 2 - 1)
RawHeadings == ({-1, 0, 1} \X {-1, 0, 1}) \ {<<0, 0>>}

\* the values of (cohere * w + separate * w + match * w) / 2
Steerings == {-1, 0, 1} \X {-1, 0, 1}

heading_Copy(hp, h, steering) ==
    [heap |-> [hp EXCEPT ![h].vec = <<@[1] + steering[1], @[2] + steering[2]>>,
                         ![h].over = hp[h].vec],
     norm_of |-> hp[h].vec]

\* MovementHandler._action, lines 122-128, for the agent whose attribute
\* heading refers to array h: the local name heading is bound to that array,
\* += changes the array in place, and np.linalg.norm(self.agent.heading)
\* reads the same array
heading(hp, h, steering) ==
    LET hp1 == [hp EXCEPT ![h].vec = <<@[1] + steering[1], @[2] + steering[2]>>]
    IN  [heap |-> [hp1 EXCEPT ![h].over = hp1[h].vec],
         norm_of |-> hp1[h].vec]

\* MovementHandler.__assure_boid_stays_in_space, lines 177 and 181:
\* heading[i] *= -1 on the array itself
reflect(hp, h, flip) ==
    [hp EXCEPT ![h].vec = <<IF flip[1] THEN -@[1] ELSE @[1],
                            IF flip[2] THEN -@[2] ELSE @[2]>>]

InitHeadings ==
    /\ \E v \in RawHeadings, p \in Positions :
          trial = [heap |-> [r \in Arrays |->
                                [vec |-> v, over |-> Raw]],
                   heading |-> [a \in HeadingAgents |-> IF a = "mother" THEN 1 ELSE 0],
                   pos |-> [a \in HeadingAgents |-> IF a = "mother" THEN p ELSE -1],
                   op |-> "init", mover |-> "none", before |-> <<0, 0>>,
                   steering |-> <<0, 0>>, norm_of |-> <<0, 0>>, done |-> FALSE]
    /\ agents = [a \in Ids |-> NoAgent]
    /\ idseq = 0
    /\ stats = Statistics
    /\ males_in_cage = FALSE
    /\ tick = 0
    /\ pc = "headings"
    /\ todo = {}
    /\ cfg = [ticks_to_run |-> 0]
    /\ crashed = FALSE
    /\ last = NoEvent

\* PregnancyHandler.__generate_baby, lines 228-229: the newborn is built with
\* self.agent.heading, the mother's array itself (Boid.__init__ keeps the
\* object it is given), and placed at the mother's position
Birth ==
    /\ pc = "headings" /\ ~trial.done
    /\ trial.heading["newborn"] = 0
    /\ trial' = [trial EXCEPT !.heading["newborn"] = trial.heading["mother"],
                              !.pos["newborn"] = trial.pos["mother"],
                              !.op = "birth"]
    /\ UNCHANGED <<agents, idseq, stats, males_in_cage, tick, pc, todo, cfg, crashed, last>>

\* MovementHandler._action of agent a
Move(a) ==
    /\ pc = "headings" /\ ~trial.done
    /\ trial.heading[a] # 0
    /\ \E steering \in Steerings, flip \in BOOLEAN \X BOOLEAN, p \in Positions :
          LET h == trial.heading[a]
              upd == heading(trial.heap, h, steering)
          IN  trial' = [trial EXCEPT !.heap = reflect(upd.heap, h, flip),
                                     !.pos[a] = p,
                                     !.op = "move", !.mover = a,
                                     !.before = trial.heap[h].vec,
                                     !.steering = steering,
                                     !.norm_of = upd.norm_of,
                                     !.done = TRUE]
    /\ UNCHANGED <<agents, idseq, stats, males_in_cage, tick, pc, todo, cfg, crashed, last>>

NextHeadings ==
    \/ Birth
    \/ \E a \in HeadingAgents : Move(a)

SpecHeadings == InitHeadings /\ [][NextHeadings]_vars

\* the heading of an agent in a state of the trial
HeadingOf(t, a) == t.heap[t.heading[a]]

\* C27 as stated: the vector handed to the norm in a movement step is the
\* heading as it was before the update of the step.
C27_NormOfPreUpdate ==
    trial.done => trial.norm_of = trial.before

\* C27 as amended: the vector handed to the norm is the updated heading
\* (heading before the step + steering), and the heading after the step is
\* that vector, reflected, divided by its own norm.
C27_NormOfUpdated ==
    trial.done =>
        LET updated == <<trial.before[1] + trial.steering[1],
                         trial.before[2] + trial.steering[2]>>
            now == HeadingOf(trial, trial.mover)
        IN  /\ trial.norm_of = updated
            /\ now.over = updated
            /\ \A i \in {1, 2} : now.vec[i] \in {updated[i], -updated[i]}

C27_Witness ==
    /\ trial.done
    /\ trial.steering # <<0, 0>>
    /\ trial.norm_of # trial.before
    /\ trial.norm_of # <<0, 0>>
    /\ HeadingOf(trial, trial.mover).over = trial.norm_of

\* C29: a movement step of an agent changes the heading and the position of
\* no other agent; a newborn's heading does not change with its mother's
\* steps, nor the mother's with the newborn's.
C29_MoveChangesOnlyMover ==
    [][(trial'.op = "move" /\ ~trial.done) =>
          \A b \in HeadingAgents \ {trial'.mover} :
              trial.heading[b] # 0 =>
                  /\ HeadingOf(trial', b) = HeadingOf(trial, b)
                  /\ trial'.pos[b] = trial.pos[b]
      ]_vars

\* ------------------------------------------- infection of a newborn
\* C28: every transmission completes without error: an activation that
\* infects neighbours raises no exception, whatever the age of the neighbours
\* (a newborn of age 0 among them), and every infected neighbour has its
\* counter at 0 afterwards.
C28_InfectionCompletes ==
    (last.op = "activate" /\ last.new_inf # {}) =>
        /\ ~crashed
        /\ \A n \in last.new_inf : is_infected(agents[n])

====
